---- MODULE Spec2Model ----
(***************************************************************************)
(* A model of tiny-deferred (deferred.js): one Deferred object, the        *)
(* private helper call(), the three registration methods and the four      *)
(* settlement methods.  User callbacks are the environment: a running      *)
(* callback may return a value, return nothing, throw, or call back into   *)
(* the Deferred.  Execution is single threaded: the model keeps an         *)
(* explicit call stack, and one step runs library code from the point      *)
(* where user code hands over control (a method call, a return, a throw)   *)
(* to the point where user code has it again.                              *)
(***************************************************************************)
EXTENDS Integers, Sequences, FiniteSets, TLC

\* ---------------------------------------------------------------- bounds
MaxOps == 3          \* method calls made on the Deferred in one behaviour
MaxFns == 3          \* functions handed to the Deferred in one behaviour
MaxDepth == 1        \* callbacks nested inside one another (re-entrancy)
MaxArgs == 2         \* values passed to one settlement call
StackLimit == 4      \* frames the engine allows before RangeError

\* ------------------------------------------------------------- constants
PENDING == 1
RESOLVED == 2
REJECTED == 3

\* JavaScript values, as tokens
UNDEFINED == "undefined"
NULL == "null"
\* what a callback may return: nothing, or a value (null, as in the README)
Returns == {UNDEFINED, NULL}

\* ------------------------------------------------- registration targets
\* A target is a function, an array of targets, or something else.
\* (reg, id) is the identity of a function value: the registration that
\* supplied it and its position in that registration's target.
Fn(reg, id) == [t |-> "fn", reg |-> reg, id |-> id, el |-> <<>>]
Arr(s) == [t |-> "arr", reg |-> 0, id |-> 0, el |-> s]
Other == [t |-> "other", reg |-> 0, id |-> 0, el |-> <<>>]

\* the arguments of a settlement call: none, or the first MaxArgs values of
\* the pool
ArgPool == <<"a", "b", "c", "d">>
ArgLists == { SubSeq(ArgPool, 1, n) : n \in {0, MaxArgs} }

VARIABLES
    state,      \* this.state
    context,    \* this.context
    args,       \* this.args: null or the arguments object of the settlement
    events,     \* this.events: null or the three queues
    stack,      \* call stack, top last
    calls,      \* history: every invocation of a user function
    ops         \* history: every method call made on the Deferred

vars == <<state, context, args, events, stack, calls, ops>>

\* what registration number reg is given: at top level a function, a nested
\* array with a non-callable element, or a non-callable; from inside a
\* callback a function
Targets(reg) ==
    IF stack = <<>>
    THEN { Fn(reg, 1),
           Arr(<<Arr(<<Other, Fn(reg, 1)>>), Fn(reg, 2)>>),
           Other }
    ELSE { Fn(reg, 1) }

\* the arguments object: its length is fixed, its indexed slots are writable
ArgsNull == [null |-> TRUE, length |-> 0, el |-> <<>>]
\* variant: the settlement does not store its arguments
ArgumentsNotStored(a) == [null |-> TRUE, length |-> 0, el |-> <<>>]
Arguments(a) == [null |-> FALSE, length |-> Len(a), el |-> a]

\* variant: settlement empties the queues but keeps the structure
EventsEmptied == [null |-> FALSE, done |-> <<>>, fail |-> <<>>, always |-> <<>>]
\* this.events = null
EventsNull == [null |-> TRUE, done |-> <<>>, fail |-> <<>>, always |-> <<>>]

\* list.apply(context, args): the values the function receives
Passed(ar) == SubSeq(ar.el, 1, ar.length)

\* args[0] = newArg
SetArg0(ar, v) ==
    IF ar.null THEN ar
    ELSE [ar EXCEPT !.el = IF Len(ar.el) = 0 THEN <<v>> ELSE [ar.el EXCEPT ![1] = v]]

Init ==
    /\ state = PENDING
    /\ context = NULL
    /\ args = ArgsNull
    /\ events = [null |-> FALSE, done |-> <<>>, fail |-> <<>>, always |-> <<>>]
    /\ stack = <<>>
    /\ calls = <<>>
    /\ ops = <<>>

\* ------------------------------------------------------------ the stack
Top == stack[Len(stack)]
Pop(s) == SubSeq(s, 1, Len(s) - 1)

\* variant: call() applies the functions without the context
CallFrameNoContext(list, ctx, op) ==
    [k |-> "call", op |-> op, list |-> list, i |-> 1, ctx |-> NULL, alw |-> Other, n |-> 0]
CallFrame(list, ctx, op) ==
    [k |-> "call", op |-> op, list |-> list, i |-> 1, ctx |-> ctx, alw |-> Other, n |-> 0]
CbFrame(op, n) ==
    [k |-> "cb", op |-> op, list |-> Other, i |-> 0, ctx |-> NULL, alw |-> Other, n |-> n]
OpFrame(op, phase, alw) ==
    [k |-> "op", op |-> op, list |-> Other, i |-> phase, ctx |-> NULL, alw |-> alw, n |-> 0]

Depth == Cardinality({ j \in 1..Len(stack) : stack[j].k = "cb" })

\* user code is in control: at top level, or inside a running callback
UserRuns == IF stack = <<>> THEN TRUE ELSE Top.k = "cb"
CanInvoke == UserRuns /\ Len(ops) < MaxOps /\ Depth <= MaxDepth

\* the functions in a target
RECURSIVE Leaves(_)
Leaves(cb) ==
    IF cb.t = "fn" THEN 1
    ELSE IF cb.t = "arr"
         THEN LET RECURSIVE Sum(_)
                  Sum(j) == IF j = 0 THEN 0 ELSE Sum(j - 1) + Leaves(cb.el[j])
              IN  Sum(Len(cb.el))
         ELSE 0

RECURSIVE FnCount(_)
FnCount(n) == IF n = 0 THEN 0 ELSE FnCount(n - 1) + Leaves(ops[n].cb)

CanRegister(cb) == CanInvoke /\ FnCount(Len(ops)) + Leaves(cb) <= MaxFns

NewOp == Len(ops) + 1
\* the history entry of a method call: its name, the state it found, whether
\* it was made at top level, its target (registrations), its arguments
\* (settlements; kept only when the call reads them) and how it ended
OpRec(name, cb, a, outcome) ==
    [name |-> name, pre |-> state, top |-> (stack = <<>>), cb |-> cb, a |-> a,
     outcome |-> outcome]

\* ------------------------------------------------------------------ call()
\* A configuration is what library code reads and writes while it runs:
\* c.stack, c.calls, c.ops, and c.args, c.context for this.args, this.context.

\* variant: the loop takes the elements from the end
ElementFromEnd(list, i) == list.el[Len(list.el) + 1 - i]
\* list[i]
Element(list, i) == list.el[i]

\* one step of call(list, context, args) in the top frame f
CallStep(c, f) ==
    IF f.list.t = "fn"
    THEN \* list.apply(context, args): the function starts running
         [c EXCEPT !.calls = Append(@, [reg |-> f.list.reg, id |-> f.list.id,
                                        ctx |-> f.ctx, a |-> Passed(c.args),
                                        op |-> f.op, ret |-> "running"]),
                   !.stack = Append(@, CbFrame(f.op, Len(c.calls) + 1))]
    ELSE IF f.list.t = "arr" /\ f.i <= Len(f.list.el)
    THEN \* call(list[i], context, args); i++
         [c EXCEPT !.stack = Append([@ EXCEPT ![Len(@)].i = f.i + 1],
                                    CallFrame(Element(f.list, f.i), f.ctx, f.op))]
    ELSE \* end of the loop, or neither a function nor an array
         [c EXCEPT !.stack = Pop(@)]

\* variant: a method returns after its first batch
OpStepReturn(c, f) ==
    [c EXCEPT !.stack = Pop(@), !.ops[f.op].outcome = "returned"]
\* a method resumes in its frame f after the call() it made returned
OpStep(c, f) ==
    IF f.i = 1
    THEN \* call(always, this.context, this.args)
         [c EXCEPT !.stack = Append([@ EXCEPT ![Len(@)].i = 2],
                                    CallFrame(f.alw, c.context, f.op))]
    ELSE \* return this
         [c EXCEPT !.stack = Pop(@), !.ops[f.op].outcome = "returned"]

\* library code runs until user code has control again: a callback has
\* been entered, or the outermost method has returned
RECURSIVE Run(_)
Run(c) ==
    IF c.stack = <<>> THEN c
    ELSE LET f == c.stack[Len(c.stack)]
         IN  IF f.k = "cb" THEN c
             ELSE IF f.k = "call" THEN Run(CallStep(c, f))
             ELSE Run(OpStep(c, f))

Config(st, cl, op, ar, ctx) ==
    [stack |-> st, calls |-> cl, ops |-> op, args |-> ar, context |-> ctx]

\* the method that was just entered pushed frames fr and logged itself as o
Enter(fr, o, ar, ctx) ==
    LET c == Run(Config(stack \o fr, calls, Append(ops, o), ar, ctx))
    IN  /\ stack' = c.stack
        /\ calls' = c.calls
        /\ ops' = c.ops

\* the method that was just entered returned without calling anything
Return(o) ==
    /\ ops' = Append(ops, o)
    /\ UNCHANGED <<stack, calls>>

\* ----------------------------------------------------------- registration
\* variant: done fires in either settled state
DoneFiresSettled(s) == s # PENDING
DoneFires(s) == s = RESOLVED
DoneQueues(s) == s = PENDING

Done(cb) ==
    /\ CanRegister(cb)
    /\ IF DoneFires(state)
       THEN /\ Enter(<<OpFrame(NewOp, 2, Other), CallFrame(cb, context, NewOp)>>,
                     OpRec("done", cb, <<>>, "running"), args, context)
            /\ UNCHANGED events
       ELSE IF DoneQueues(state)
       THEN /\ events' = [events EXCEPT !.done = Append(@, cb)]
            /\ Return(OpRec("done", cb, <<>>, "returned"))
       ELSE /\ Return(OpRec("done", cb, <<>>, "returned"))
            /\ UNCHANGED events
    /\ UNCHANGED <<state, context, args>>

FailFires(s) == s = REJECTED
FailQueues(s) == s = PENDING

Fail(cb) ==
    /\ CanRegister(cb)
    /\ IF FailFires(state)
       THEN /\ Enter(<<OpFrame(NewOp, 2, Other), CallFrame(cb, context, NewOp)>>,
                     OpRec("fail", cb, <<>>, "running"), args, context)
            /\ UNCHANGED events
       ELSE IF FailQueues(state)
       THEN /\ events' = [events EXCEPT !.fail = Append(@, cb)]
            /\ Return(OpRec("fail", cb, <<>>, "returned"))
       ELSE /\ Return(OpRec("fail", cb, <<>>, "returned"))
            /\ UNCHANGED events
    /\ UNCHANGED <<state, context, args>>

\* variant: always fires only when resolved
AlwaysFiresResolved(s) == s = RESOLVED
AlwaysFires(s) == s # PENDING

Always(cb) ==
    /\ CanRegister(cb)
    /\ IF AlwaysFires(state)
       THEN /\ Enter(<<OpFrame(NewOp, 2, Other), CallFrame(cb, context, NewOp)>>,
                     OpRec("always", cb, <<>>, "running"), args, context)
            /\ UNCHANGED events
       ELSE /\ events' = [events EXCEPT !.always = Append(@, cb)]
            /\ Return(OpRec("always", cb, <<>>, "returned"))
    /\ UNCHANGED <<state, context, args>>

\* ------------------------------------------------------------- settlement
\* variant: resolve without its guard
ResolveGuardAny(s) == TRUE
ResolveGuard(s) == s = PENDING
\* variant: resolve captures the fail queue for its first batch
ResolveDoneIsFail(ev) == ev.fail
ResolveDone(ev) == ev.done
\* variant: resolve captures the done queue again for its second batch
ResolveAlwaysIsDone(ev) == ev.done
ResolveAlways(ev) == ev.always

\* the body of resolve: name and full are the public method called and its
\* arguments, a the values resolve receives, ctx this.context as it runs
ResolveBody(name, full, a, ctx) ==
    IF ResolveGuard(state)
    THEN /\ state' = RESOLVED
         /\ args' = Arguments(a)
         /\ events' = EventsNull
         /\ Enter(<<OpFrame(NewOp, 1, Arr(ResolveAlways(events))),
                    CallFrame(Arr(ResolveDone(events)), ctx, NewOp)>>,
                  OpRec(name, Other, full, "running"), Arguments(a), ctx)
    ELSE /\ Return(OpRec(name, Other, <<>>, "returned"))
         /\ UNCHANGED <<state, args, events>>

Resolve(a) ==
    /\ CanInvoke
    /\ ResolveBody("resolve", a, a, context)
    /\ UNCHANGED context

\* variant: resolveWith without its guard
ResolveWithGuardAny(s) == TRUE
ResolveWithGuard(s) == s = PENDING
\* the first argument, undefined when there is none
FirstArg(a) == IF Len(a) > 0 THEN a[1] ELSE UNDEFINED
\* variant: the arguments are passed on unsliced
Slice1Keep(a) == a
\* slice.call(arguments, 1)
Slice1(a) == SubSeq(a, 2, Len(a))

ResolveWith(a) ==
    /\ CanInvoke
    /\ IF ResolveWithGuard(state)
       THEN /\ context' = FirstArg(a)
            /\ ResolveBody("resolveWith", a, Slice1(a), FirstArg(a))
       ELSE /\ Return(OpRec("resolveWith", Other, <<>>, "returned"))
            /\ UNCHANGED <<state, context, args, events>>

RejectWithGuard(s) == s = PENDING
\* variant: rejectWith captures the done queue for its first batch
RejectWithFailIsDone(ev) == ev.done
RejectWithFail(ev) == ev.fail
RejectWithAlways(ev) == ev.always

\* rejectWith is the plain variant: every argument is a callback argument
RejectWith(a) ==
    /\ CanInvoke
    /\ IF RejectWithGuard(state)
       THEN /\ state' = REJECTED
            /\ args' = Arguments(a)
            /\ events' = EventsNull
            /\ Enter(<<OpFrame(NewOp, 1, Arr(RejectWithAlways(events))),
                       CallFrame(Arr(RejectWithFail(events)), context, NewOp)>>,
                     OpRec("rejectWith", Other, a, "running"), Arguments(a), context)
       ELSE /\ Return(OpRec("rejectWith", Other, <<>>, "returned"))
            /\ UNCHANGED <<state, args, events>>
    /\ UNCHANGED context

\* variant: reject without its guard
RejectGuardAny(s) == TRUE
RejectGuard(s) == s = PENDING

\* reject(context, ...) calls this.reject, that is itself, with the rest of
\* its arguments.  While the state is PENDING nothing ends the recursion but
\* the engine's stack limit.  The result is the value left in this.context
\* and whether a RangeError came out.
RECURSIVE RejectRec(_, _, _, _)
RejectRec(s, ctx, a, depth) ==
    IF depth > StackLimit
    THEN [context |-> ctx, raised |-> TRUE]
    ELSE IF RejectGuard(s)
         THEN RejectRec(s, FirstArg(a), Slice1(a), depth + 1)
         ELSE [context |-> ctx, raised |-> FALSE]

Reject(a) ==
    /\ CanInvoke
    /\ LET r == RejectRec(state, context, a, 1)
       IN  /\ context' = r.context
           /\ Return(OpRec("reject", Other, IF r.raised THEN a ELSE <<>>,
                           IF r.raised THEN "raised" ELSE "returned"))
    /\ UNCHANGED <<state, args, events>>

\* ---------------------------------------------------------- user callbacks
\* variant: only a truthy value is stored
OverwritesTruthy(v) == v \notin {UNDEFINED, NULL}
\* typeof newArg !== 'undefined'
Overwrites(v) == v # UNDEFINED

\* the running callback returns v: call() stores it (newArg) and returns
CbReturn(v) ==
    /\ stack # <<>>
    /\ Top.k = "cb"
    /\ LET ar == IF Overwrites(v) THEN SetArg0(args, v) ELSE args
           c == Run(Config(Pop(Pop(stack)), [calls EXCEPT ![Top.n].ret = v],
                           ops, ar, context))
       IN  /\ args' = ar
           /\ stack' = c.stack
           /\ calls' = c.calls
           /\ ops' = c.ops
    /\ UNCHANGED <<state, context, events>>

\* what an exception leaves of the stack: the library has no try/catch, so
\* every frame goes up to the nearest callback running below the thrower,
\* where user code may catch it
\* variant: call() catches the exception and goes on
UnwindCaught(s) == s
RECURSIVE Unwind(_)
Unwind(s) ==
    IF s = <<>> THEN s
    ELSE IF s[Len(s)].k = "cb" THEN s
    ELSE Unwind(Pop(s))

\* the running callback throws
CbThrow ==
    /\ stack # <<>>
    /\ Top.k = "cb"
    /\ calls' = [calls EXCEPT ![Top.n].ret = "threw"]
    /\ stack' = Unwind(Pop(stack))
    /\ ops' = [o \in 1..Len(ops) |->
                 IF \E j \in (Len(stack') + 1)..Len(stack) :
                        stack[j].k = "op" /\ stack[j].op = o
                 THEN [ops[o] EXCEPT !.outcome = "raised"]
                 ELSE ops[o]]
    /\ UNCHANGED <<state, context, args, events>>

Next ==
    \/ \E cb \in Targets(NewOp) : Done(cb)
    \/ \E cb \in Targets(NewOp) : Fail(cb)
    \/ \E cb \in Targets(NewOp) : Always(cb)
    \/ \E a \in ArgLists : Resolve(a)
    \/ \E a \in ArgLists : ResolveWith(a)
    \/ \E a \in ArgLists : RejectWith(a)
    \/ \E a \in ArgLists : Reject(a)
    \/ \E v \in Returns : CbReturn(v)
    \/ CbThrow

Spec == Init /\ [][Next]_vars

\* ======================================================================
\* Vocabulary of the properties
\* ======================================================================
Ops == 1..Len(ops)
Calls == 1..Len(calls)
Registrations == {"done", "fail", "always"}
Settlements == {"resolve", "resolveWith", "reject", "rejectWith"}

\* the functions of a target, depth first, left to right
RECURSIVE Flat(_)
Flat(cb) ==
    IF cb.t = "fn" THEN << <<cb.reg, cb.id>> >>
    ELSE IF cb.t = "arr"
         THEN LET RECURSIVE Cat(_)
                  Cat(j) == IF j = 0 THEN <<>> ELSE Cat(j - 1) \o Flat(cb.el[j])
              IN  Cat(Len(cb.el))
         ELSE <<>>

\* registration o was made while PENDING, so it was queued
IsQueued(o, name) == ops[o].name = name /\ ops[o].pre = PENDING

\* the functions queued by the registrations called name, in registration order
RECURSIVE QueuedFns(_, _)
QueuedFns(name, n) ==
    IF n = 0 THEN <<>>
    ELSE QueuedFns(name, n - 1) \o (IF IsQueued(n, name) THEN Flat(ops[n].cb) ELSE <<>>)

Queue(name) == QueuedFns(name, Len(ops))

\* the functions method call o itself has invoked so far, in order
FiredBy(o) ==
    LET mine == SelectSeq(calls, LAMBDA e : e.op = o)
    IN  [j \in 1..Len(mine) |-> <<mine[j].reg, mine[j].id>>]

IsPrefix(p, q) == Len(p) <= Len(q) /\ SubSeq(q, 1, Len(p)) = p
Range(q) == { q[j] : j \in 1..Len(q) }

\* the method calls that settled the Deferred
Resolvers == { o \in Ops : ops[o].pre = PENDING /\ ops[o].name \in {"resolve", "resolveWith"} }
Rejecters == { o \in Ops : ops[o].pre = PENDING /\ ops[o].name = "rejectWith" }

\* invocations of the functions in q, by any method call
InvokedOf(q) == { n \in Calls : <<calls[n].reg, calls[n].id>> \in Range(q) }

\* a settlement call with arguments (context, v1..vn): context and v1..vn
GivenContext(a) == IF a = <<>> THEN UNDEFINED ELSE Head(a)
GivenValues(a) == IF a = <<>> THEN <<>> ELSE Tail(a)

\* ---------------------------------------------------------------------
\* C1: the state starts PENDING and every change of it is PENDING -> RESOLVED
\* or PENDING -> REJECTED, so it changes at most once and a settled state
\* never changes again, whatever is called and from wherever.
C1_StateOnce ==
    /\ state = PENDING
    /\ [][state' # state => (state = PENDING /\ state' \in {RESOLVED, REJECTED})]_vars

\* a settled Deferred on which a settlement method was called again from
\* inside a callback
C1_Witness ==
    /\ state # PENDING
    /\ \E o \in Ops : /\ ops[o].name \in Settlements
                      /\ ops[o].pre # PENDING
                      /\ ~ops[o].top

\* ---------------------------------------------------------------------
\* C2 as stated: once the resolve call on a PENDING Deferred is over, it has
\* invoked every queued done function and then every queued always
\* function, each once and in registration order, and no queued fail
\* function has been invoked.
C2_AsStated ==
    \A s \in Resolvers :
        ops[s].outcome # "running" =>
            /\ FiredBy(s) = Queue("done") \o Queue("always")
            /\ InvokedOf(Queue("fail")) = {}

\* C2, amended: a resolve call that returns without an exception has
\* invoked every queued done function and then every queued always function,
\* each once and in registration order; at every moment, also when a
\* callback throws, what it has invoked is an initial part of that order, no
\* other method call ever invokes a queued function, and no queued fail
\* function is ever invoked.
C2_ResolveOrder ==
    \A s \in Resolvers :
        /\ IsPrefix(FiredBy(s), Queue("done") \o Queue("always"))
        /\ ops[s].outcome = "returned" => FiredBy(s) = Queue("done") \o Queue("always")
        /\ \A n \in InvokedOf(Queue("done") \o Queue("always")) : calls[n].op = s
        /\ InvokedOf(Queue("fail")) = {}

\* resolve has returned after running two queued done functions and one
\* queued always function
C2_Witness ==
    \E s \in Resolvers :
        /\ ops[s].name = "resolve"
        /\ ops[s].outcome = "returned"
        /\ Len(Queue("done")) = 2
        /\ Len(Queue("always")) = 1
        /\ Len(FiredBy(s)) = 3

\* ---------------------------------------------------------------------
\* C3 as stated: once the call that settles a PENDING Deferred as REJECTED is
\* over, it has invoked every queued fail function and then every queued
\* always function, each once and in registration order, and no queued done
\* function has been invoked.
C3_AsStated ==
    \A s \in Rejecters :
        ops[s].outcome # "running" =>
            /\ FiredBy(s) = Queue("fail") \o Queue("always")
            /\ InvokedOf(Queue("done")) = {}

\* C3, amended: a settlement into REJECTED that returns without an exception
\* has invoked every queued fail function and then every queued always
\* function, each once and in registration order; at every moment, also
\* when a callback throws, what it has invoked is an initial part of that
\* order, no other method call ever invokes a queued function, and no
\* queued done function is ever invoked.
C3_RejectOrder ==
    \A s \in Rejecters :
        /\ IsPrefix(FiredBy(s), Queue("fail") \o Queue("always"))
        /\ ops[s].outcome = "returned" => FiredBy(s) = Queue("fail") \o Queue("always")
        /\ \A n \in InvokedOf(Queue("fail") \o Queue("always")) : calls[n].op = s
        /\ InvokedOf(Queue("done")) = {}

\* the rejecting call has returned after running two fail functions and one
\* always function
C3_Witness ==
    \E s \in Rejecters :
        /\ ops[s].outcome = "returned"
        /\ Len(Queue("fail")) = 2
        /\ Len(Queue("always")) = 1
        /\ Len(FiredBy(s)) = 3

\* ---------------------------------------------------------------------
\* C4 as stated: reject(x..) on a PENDING Deferred returns, leaving state
\* REJECTED, args [x..] and the context unset; a later fail(fn2) invokes fn2
\* at once with x.. and a later done(fn) never invokes fn.
C4_AsStated ==
    \A o \in Ops :
        (ops[o].name = "reject" /\ ops[o].pre = PENDING /\ ops[o].a # <<>>) =>
            /\ ops[o].outcome = "returned"
            /\ state = REJECTED
            /\ ~args.null /\ args.length = Len(ops[o].a)
            /\ context = NULL
            /\ \A r \in Ops :
                 (r > o /\ ops[r].name = "fail" /\ Flat(ops[r].cb) # <<>>) =>
                     \E n \in Calls : calls[n].op = r /\ calls[n].a = ops[o].a
            /\ \A r \in Ops :
                 (r > o /\ ops[r].name = "done") => InvokedOf(Flat(ops[r].cb)) = {}

\* ---------------------------------------------------------------------
\* C5 as stated: rejectWith(context, v1..vn) on a PENDING Deferred stores
\* context as the context and [v1..vn] as args, so the first callback it
\* invokes runs with that context and receives v1..vn.
C5_AsStated ==
    \A s \in Rejecters :
        Len(ops[s].a) >= 1 =>
            /\ context = GivenContext(ops[s].a)
            /\ args.length = Len(ops[s].a) - 1
            /\ \A n \in Calls :
                 (calls[n].op = s /\ \A m \in 1..(n - 1) : calls[m].op # s) =>
                     /\ calls[n].ctx = GivenContext(ops[s].a)
                     /\ calls[n].a = GivenValues(ops[s].a)

\* ---------------------------------------------------------------------
\* a callback that started before invocation n has returned a value
ValueReturnedBefore(n) ==
    \E m \in 1..(n - 1) : calls[m].ret \notin {UNDEFINED, "running", "threw"}
AnyValueReturned == ValueReturnedBefore(Len(calls) + 1)

\* q and r are equally long and agree from position 2 on
SameTail(q, r) == Len(q) = Len(r) /\ \A j \in 2..Len(q) : q[j] = r[j]

\* a reject call was made on the PENDING Deferred before method call s
RejectTriedBefore(s) ==
    \E o \in 1..(s - 1) : ops[o].name = "reject" /\ ops[o].pre = PENDING

\* C6 as stated: after resolveWith(context, v1..vn) on a PENDING Deferred the
\* state is RESOLVED, the stored context is context, and every callback is
\* invoked with that context and v1..vn; after a plain resolve the context
\* is unset (null, the constructor's default, or undefined).
C6_AsStated ==
    \A s \in Resolvers :
        IF ops[s].name = "resolveWith"
        THEN /\ state = RESOLVED
             /\ context = GivenContext(ops[s].a)
             /\ \A n \in Calls : /\ calls[n].ctx = GivenContext(ops[s].a)
                                 /\ calls[n].a = GivenValues(ops[s].a)
        ELSE context \in {NULL, UNDEFINED}

\* C6, amended: resolveWith(context, v1..vn) on a PENDING Deferred settles it
\* as RESOLVED with stored context = context and stored args = [v1..vn];
\* every callback, queued or registered later, is invoked with that context
\* and with n arguments of which v2..vn never change and the first is v1 as
\* long as no callback has returned a value other than undefined.  A plain
\* resolve does not write the context: it is null unless a reject call was
\* made on the PENDING Deferred before.
C6_ResolveWith ==
    /\ [](\A s \in Resolvers :
            IF ops[s].name = "resolveWith"
            THEN /\ state = RESOLVED
                 /\ context = GivenContext(ops[s].a)
                 /\ ~args.null
                 /\ SameTail(Passed(args), GivenValues(ops[s].a))
                 /\ ~AnyValueReturned => Passed(args) = GivenValues(ops[s].a)
                 /\ \A n \in Calls :
                      /\ calls[n].ctx = GivenContext(ops[s].a)
                      /\ SameTail(calls[n].a, GivenValues(ops[s].a))
                      /\ ~ValueReturnedBefore(n) => calls[n].a = GivenValues(ops[s].a)
            ELSE ~RejectTriedBefore(s) =>
                     /\ context = NULL
                     /\ \A n \in Calls : calls[n].ctx = NULL)
    /\ [][(Len(ops') > Len(ops) /\ ops'[Len(ops')].name = "resolve")
              => context' = context]_vars

\* after resolveWith("a", "b") a queued function and a function registered
\* later have both run with context "a" and argument "b"
C6_Witness ==
    \E s \in Resolvers :
        /\ ops[s].name = "resolveWith"
        /\ ops[s].a = <<"a", "b">>
        /\ \E n, m \in Calls :
             /\ calls[n].op = s
             /\ calls[m].op > s
             /\ calls[n].ctx = "a" /\ calls[n].a = <<"b">>
             /\ calls[m].ctx = "a" /\ calls[m].a = <<"b">>

\* ---------------------------------------------------------------------
\* registrations made on a settled Deferred
Late(name) == { o \in Ops : ops[o].name = name /\ ops[o].pre # PENDING
                            /\ Flat(ops[o].cb) # <<>> }

\* registration o invoked its functions inside its own call: the first one
\* as soon as the call was made, the others in order, all of them when the
\* call returns, none of them by any other method call
FiredInside(o) ==
    /\ FiredBy(o) # <<>>
    /\ IsPrefix(FiredBy(o), Flat(ops[o].cb))
    /\ ops[o].outcome = "returned" => FiredBy(o) = Flat(ops[o].cb)
    /\ \A n \in InvokedOf(Flat(ops[o].cb)) : calls[n].op = o

\* registration o returned at once and its functions are never invoked
Discarded(o) ==
    /\ ops[o].outcome = "returned"
    /\ InvokedOf(Flat(ops[o].cb)) = {}

Count(fn) == Cardinality(InvokedOf(<<fn>>))

\* the settling call is over
SettlementOver == \E s \in Resolvers \cup Rejecters : ops[s].outcome # "running"
SettlementReturned == \E s \in Resolvers \cup Rejecters : ops[s].outcome = "returned"

\* C8 as stated: an always callback queued while PENDING has been invoked
\* exactly once when the settlement is over.
C8_AsStated ==
    SettlementOver => \A fn \in Range(Queue("always")) : Count(fn) = 1

\* C8, amended: an always callback registered while PENDING is not invoked
\* before settlement and never more than once; when the settling call, to
\* RESOLVED or to REJECTED, returns without an exception it has been invoked
\* exactly once.  always(cb) on a Deferred in either settled state invokes cb
\* exactly once inside the always call.
C8_Always ==
    /\ state = PENDING => calls = <<>>
    /\ \A fn \in Range(Queue("always")) : Count(fn) <= 1
    /\ SettlementReturned => \A fn \in Range(Queue("always")) : Count(fn) = 1
    /\ \A o \in Late("always") :
         /\ FiredInside(o)
         /\ \A fn \in Range(Flat(ops[o].cb)) : Count(fn) <= 1
         /\ Count(Flat(ops[o].cb)[1]) = 1

\* a rejecting call has returned after running a queued always function,
\* and an always made afterwards has run its function too
C8_Witness ==
    /\ state = REJECTED
    /\ SettlementReturned
    /\ Queue("always") # <<>>
    /\ \E o \in Late("always") : ops[o].outcome = "returned"

\* ---------------------------------------------------------------------
\* C9: a settlement call on a Deferred that is already RESOLVED or REJECTED
\* returns without an exception, invokes nothing and leaves the state, the
\* stored args and the stored context as they were.
C9_SettledNoOp ==
    [][(Len(ops') > Len(ops) /\ ops'[Len(ops')].name \in Settlements
            /\ state # PENDING)
         => /\ state' = state
            /\ args' = args
            /\ context' = context
            /\ events' = events
            /\ calls' = calls
            /\ stack' = stack
            /\ ops'[Len(ops')].outcome = "returned"]_vars

\* reject and resolveWith have both been called on a settled Deferred
C9_Witness ==
    /\ \E o \in Ops : ops[o].name = "reject" /\ ops[o].pre # PENDING
    /\ \E o \in Ops : ops[o].name = "resolveWith" /\ ops[o].pre # PENDING

\* ---------------------------------------------------------------------
\* C10: a registration is queued or fired at once, never both, and a
\* function is invoked at most once per registration of it: a registration
\* made while PENDING invokes nothing itself, the functions of a
\* registration made after settlement are invoked by that registration
\* only and nothing is queued then, and no function is ever invoked twice.
C10_AtMostOnce ==
    /\ \A n, m \in Calls :
         (calls[n].reg = calls[m].reg /\ calls[n].id = calls[m].id) => n = m
    /\ \A o \in Ops :
         ops[o].name \in Registrations =>
             IF ops[o].pre = PENDING
             THEN FiredBy(o) = <<>>
             ELSE \A n \in InvokedOf(Flat(ops[o].cb)) : calls[n].op = o
    /\ state # PENDING => events.done \o events.fail \o events.always = <<>>

\* resolve fired two functions, and a settlement was tried again afterwards
C10_Witness ==
    \E s \in Resolvers :
        /\ Len(FiredBy(s)) >= 2
        /\ \E o \in Ops : o > s /\ ops[o].name \in Settlements

\* ---------------------------------------------------------------------
\* registrations made on a settled Deferred to a category that fires
LateFiring ==
    {o \in Late("done") : ops[o].pre = RESOLVED}
        \cup {o \in Late("fail") : ops[o].pre = REJECTED}
        \cup Late("always")

\* the values a settling call passes on: all but the first argument of
\* resolveWith(context, v1..vn), every argument of the plain methods
ValuesOf(s) == IF ops[s].name = "resolveWith" THEN GivenValues(ops[s].a) ELSE ops[s].a

\* what a function invoked now receives: this.args, read as apply reads it
StoredArgs == SubSeq(args.el, 1, args.length)

\* the values callbacks have returned so far
ReturnedValues == { calls[m].ret : m \in Calls } \ {UNDEFINED, "running", "threw"}

\* invocation n was made by the step just taken
IsNewCall(n) == n = Len(calls') /\ Len(calls') > Len(calls)

\* C11 as stated: on a RESOLVED Deferred a registration made after the
\* settlement to a category that fires invokes its functions inside the
\* registration call, with the stored context and with exactly the values
\* that resolve or resolveWith was given, whatever callbacks ran before.
C11_AsStated ==
    \A o \in LateFiring : \A s \in Resolvers :
        /\ FiredInside(o)
        /\ \A n \in Calls :
             calls[n].op = o => /\ calls[n].ctx = context
                                /\ calls[n].a = ValuesOf(s)

\* C11, amended: a registration made after settlement to a category that
\* fires invokes its functions inside the registration call only, each at
\* most once, the first always and the rest in order when the call returns.
\* Each runs with the stored context and the stored args as they are at that
\* moment.  After settlement the stored context, the number of stored args
\* and the args from the second on never change; the first arg is the
\* settlement's first value until a callback returns a value other than
\* undefined, and a returned value afterwards.  On a RESOLVED Deferred the
\* settlement's values are those given to resolve or resolveWith.
C11_LateRegistration ==
    /\ [](\A o \in LateFiring :
            /\ FiredInside(o)
            /\ \A fn \in Range(Flat(ops[o].cb)) : Count(fn) <= 1
            /\ Count(Flat(ops[o].cb)[1]) = 1
            /\ \A n \in Calls :
                 calls[n].op = o =>
                     /\ calls[n].ctx = context
                     /\ SameTail(calls[n].a, StoredArgs)
                     /\ \A s \in Resolvers :
                          /\ SameTail(calls[n].a, ValuesOf(s))
                          /\ ~ValueReturnedBefore(n) => calls[n].a = ValuesOf(s)
                          /\ (calls[n].a # <<>> /\ calls[n].a # ValuesOf(s))
                                 => calls[n].a[1] \in ReturnedValues)
    /\ [][state # PENDING =>
              /\ context' = context
              /\ SameTail(SubSeq(args'.el, 1, args'.length), StoredArgs)]_vars
    /\ [][\A n \in 1..Len(calls') :
              (IsNewCall(n) /\ ops'[calls'[n].op].name \in Registrations)
                  => /\ calls'[n].a = SubSeq(args'.el, 1, args'.length)
                     /\ calls'[n].ctx = context]_vars

\* after resolve("a", "b"), where a queued function returned null, a done
\* made later has run its function with (null, "b") and returned
C11_Witness ==
    \E o \in LateFiring : \E s \in Resolvers :
        /\ ops[s].a = <<"a", "b">>
        /\ ops[o].name = "done"
        /\ ops[o].outcome = "returned"
        /\ \E n \in Calls : calls[n].op = o /\ calls[n].a = <<NULL, "b">>

\* ---------------------------------------------------------------------
\* C12 as stated: once a callback has returned a value other than undefined,
\* every callback invoked afterwards on the Deferred, by the settlement or
\* by a later registration, receives a returned value as its first argument.
C12_AsStated ==
    [][\A n \in 1..Len(calls') :
           (IsNewCall(n) /\ ReturnedValues' # {})
               => /\ calls'[n].a # <<>>
                  /\ calls'[n].a[1] \in ReturnedValues']_vars

\* ---------------------------------------------------------------------
\* invocation n returns in the step being taken
Returning(n) == calls[n].ret = "running" /\ calls'[n].ret \notin {"running", "threw"}

\* C13: when a callback returns a value other than undefined (null
\* included), position 0 of the stored argument list is overwritten with
\* that value and nothing else of the list changes; when it returns
\* undefined the list is left as it was.  The next callback of the batch is
\* invoked with the list as it then is: after a return of undefined its
\* arguments equal the prior ones, and after a return of a value, when the
\* settlement passed at least one value, its first argument is that value.
C13_Overwrite ==
    [][\A n \in Calls :
         Returning(n) =>
             /\ IF calls'[n].ret # UNDEFINED
                THEN /\ Len(args'.el) >= 1
                     /\ args'.el[1] = calls'[n].ret
                     /\ args'.length = args.length
                     /\ Len(args'.el) >= Len(args.el)
                     /\ \A j \in 2..Len(args.el) : args'.el[j] = args.el[j]
                ELSE args' = args
             /\ \A m \in 1..Len(calls') :
                  IsNewCall(m) =>
                      /\ calls'[m].a = SubSeq(args'.el, 1, args'.length)
                      /\ calls'[n].ret = UNDEFINED => calls'[m].a = StoredArgs
                      /\ (calls'[n].ret # UNDEFINED /\ args.length >= 1)
                             => calls'[m].a[1] = calls'[n].ret]_vars

\* in one batch fired with ("a", "b") a function returned undefined, the
\* next received ("a", "b") and returned null, and the third received
\* (null, "b")
C13_Witness ==
    \E n \in Calls :
        /\ n + 2 \in Calls
        /\ calls[n].op = calls[n + 2].op
        /\ calls[n].ret = UNDEFINED
        /\ calls[n + 1].a = <<"a", "b">>
        /\ calls[n + 1].ret = NULL
        /\ calls[n + 2].a = <<NULL, "b">>

\* ---------------------------------------------------------------------
\* invocation n throws in the step being taken
Throwing(n) == calls[n].ret = "running" /\ calls'[n].ret = "threw"

\* C14: an exception thrown by a callback comes out of the method call
\* that invoked the callback, a settlement call for a queued callback and a
\* registration call for a callback registered after settlement: that
\* call ends by raising, invokes nothing more, and control is back in the
\* user code that made the call.  A registration or settlement call raises
\* only in this way (reject aside, whose own failure is C4's subject).
C14_Propagates ==
    /\ [](\A n \in Calls :
            calls[n].ret = "threw" =>
                /\ ops[calls[n].op].outcome = "raised"
                /\ \A m \in Calls : (m > n) => calls[m].op # calls[n].op)
    /\ [](\A o \in Ops :
            (ops[o].outcome = "raised" /\ ops[o].name # "reject") =>
                \E n \in Calls : calls[n].op = o /\ calls[n].ret = "threw")
    /\ [][\A n \in Calls :
            Throwing(n) =>
                /\ ops[calls[n].op].outcome = "running"
                /\ ops'[calls[n].op].outcome = "raised"
                /\ IF ops[calls[n].op].pre = PENDING
                   THEN ops[calls[n].op].name \in Settlements
                   ELSE ops[calls[n].op].name \in Registrations
                /\ Len(calls') = Len(calls)
                /\ IF stack' = <<>>
                   THEN ops[calls[n].op].top
                   ELSE /\ ~ops[calls[n].op].top
                        /\ stack'[Len(stack')].k = "cb"
                        /\ calls[stack'[Len(stack')].n].ret = "running"]_vars

\* a settlement call raised because a queued callback threw, and a done
\* made afterwards raised because its callback threw
C14_Witness ==
    /\ \E s \in Resolvers \cup Rejecters : ops[s].outcome = "raised"
    /\ \E o \in LateFiring : ops[o].outcome = "raised"

\* ---------------------------------------------------------------------
\* the step being taken is a call of registration method name
Registering(name) == Len(ops') > Len(ops) /\ ops'[Len(ops')].name = name

\* the target the registration being made was given
Registered == ops'[Len(ops')].cb

\* C15: the queue structure exists exactly while the state is PENDING.
\* Settlement discards it, and on a settled Deferred no registration
\* touches it again.  While PENDING a registration appends its target to the
\* end of its own category's queue, leaves the other two queues alone and
\* invokes nothing.
C15_Queues ==
    /\ [](events.null <=> state # PENDING)
    /\ [](events.null => /\ events.done = <<>>
                         /\ events.fail = <<>>
                         /\ events.always = <<>>)
    /\ [][state # PENDING => events' = events]_vars
    /\ [][(state = PENDING /\ Registering("done")) =>
              /\ events' = [events EXCEPT !.done = Append(events.done, Registered)]
              /\ calls' = calls /\ state' = state]_vars
    /\ [][(state = PENDING /\ Registering("fail")) =>
              /\ events' = [events EXCEPT !.fail = Append(events.fail, Registered)]
              /\ calls' = calls /\ state' = state]_vars
    /\ [][(state = PENDING /\ Registering("always")) =>
              /\ events' = [events EXCEPT !.always = Append(events.always, Registered)]
              /\ calls' = calls /\ state' = state]_vars

\* a REJECTED Deferred without queues, on which a callback had been queued
\* while PENDING and a done was made after the settlement
C15_Witness ==
    /\ state = REJECTED
    /\ events.null
    /\ \E o \in Ops : ops[o].name \in Registrations /\ ops[o].pre = PENDING
                      /\ Flat(ops[o].cb) # <<>>
    /\ \E o \in Late("done") : ops[o].outcome = "returned"

\* ---------------------------------------------------------------------
\* the method that registered the function of invocation n
RegisteredBy(n) == ops[calls[n].reg].name

\* the order in which the settling call s fires what was queued
QueueOrder(s) ==
    IF s \in Resolvers THEN Queue("done") \o Queue("always")
    ELSE Queue("fail") \o Queue("always")

\* registrations made from inside a callback on the settled Deferred to a
\* category that fires
Reentrant == { o \in LateFiring : ~ops[o].top }

\* C16 as stated: also when callbacks re-enter the Deferred, every function
\* registered with always is invoked after all the queued done or fail
\* functions that the settling call invokes, and functions registered with
\* done are invoked in the order of their registration.
C16_AsStated ==
    \A s \in Resolvers \cup Rejecters : \A n, m \in Calls :
        /\ (RegisteredBy(n) = "always" /\ calls[m].op = s
                /\ RegisteredBy(m) \in {"done", "fail"}) => m < n
        /\ (RegisteredBy(n) = "done" /\ RegisteredBy(m) = "done"
                /\ calls[n].reg < calls[m].reg) => n < m

\* C16, amended: also when callbacks re-enter the Deferred, the settling
\* call fires the functions queued while PENDING in one order, done (or
\* fail) functions in registration order and then always functions in
\* registration order, all of them when it returns.  A registration that a
\* running callback makes on the settled Deferred to a category that fires
\* is not held back: its first function is invoked as the registration
\* call is made, while the callback that made it is still running, and no
\* method call made earlier, the settling call included, invokes anything
\* until that registration call is over; so its functions run before the
\* queued functions that the settling call has not yet reached.
C16_ReentrantOrder ==
    /\ [](\A s \in Resolvers \cup Rejecters :
            /\ IsPrefix(FiredBy(s), QueueOrder(s))
            /\ ops[s].outcome = "returned" => FiredBy(s) = QueueOrder(s))
    /\ [](\A o \in Reentrant : \A n, m, k \in Calls :
            (calls[n].op = o /\ calls[k].op = o /\ calls[m].op < o)
                => ~(n < m /\ m < k))
    /\ [](\A o \in Reentrant : \A n, m \in Calls :
            (calls[n].op = o /\ calls[m].op < o /\ n < m)
                => ops[o].outcome # "running")
    /\ [][\A name \in Registrations :
            (Registering(name) /\ stack # <<>> /\ Len(ops') \in Reentrant')
                => /\ Len(calls') = Len(calls) + 1
                   /\ calls'[Len(calls')].op = Len(ops')
                   /\ calls'[Len(calls')].reg = Len(ops')
                   /\ calls[stack[Len(stack)].n].ret = "running"
                   /\ calls'[stack[Len(stack)].n].ret = "running"]_vars

\* a callback fired by the settling call registered a function that ran at
\* once, and the settling call went on to a queued function afterwards and
\* returned
C16_Witness ==
    \E s \in Resolvers \cup Rejecters : \E o \in Reentrant : \E n, m \in Calls :
        /\ ops[s].outcome = "returned"
        /\ calls[n].op = o
        /\ calls[m].op = s
        /\ n < m
        /\ RegisteredBy(m) \in {"done", "fail"}

\* ---------------------------------------------------------------------
\* the step being taken is a settlement call made by a running callback
SettlingInside ==
    /\ Len(ops') > Len(ops)
    /\ ops'[Len(ops')].name \in Settlements
    /\ stack # <<>>

\* C17: the state has left PENDING before a callback is invoked, so while
\* any callback runs the state is RESOLVED or REJECTED, and a call of
\* resolve, resolveWith, reject or rejectWith made by a running callback
\* returns without an exception, invokes nothing and leaves the state, the
\* stored args and the stored context as they were.
C17_SettledBeforeFiring ==
    /\ [](calls # <<>> => state # PENDING)
    /\ [](stack # <<>> => state # PENDING)
    /\ [][Len(calls') > Len(calls) => state' # PENDING]_vars
    /\ [][SettlingInside =>
              /\ ops'[Len(ops')].pre # PENDING
              /\ ops'[Len(ops')].outcome = "returned"
              /\ state' = state
              /\ args' = args
              /\ context' = context
              /\ events' = events
              /\ calls' = calls
              /\ stack' = stack]_vars

\* a callback fired by the settling call called reject, which returned,
\* and the callback is still running
C17_Witness ==
    \E o \in Ops : \E s \in Resolvers \cup Rejecters : \E n \in Calls :
        /\ ops[o].name = "reject"
        /\ ~ops[o].top
        /\ ops[o].outcome = "returned"
        /\ calls[n].op = s
        /\ calls[n].ret = "running"
        /\ Len(calls) = n

\* ---------------------------------------------------------------------
\* the invocations of the functions of registration o's target, in order
TargetCalls(o) ==
    LET mine == SelectSeq(calls, LAMBDA e : e.reg = o)
    IN  [j \in 1..Len(mine) |-> <<mine[j].reg, mine[j].id>>]

\* call() has been given the target of registration o
Reached(o) == \E n \in Calls : calls[n].reg = o

\* the method calls that invoked functions of o's target are over
Over(o) == \A n \in Calls : calls[n].reg = o => ops[calls[n].op].outcome # "running"
OverReturned(o) == \A n \in Calls : calls[n].reg = o => ops[calls[n].op].outcome = "returned"

\* an invocation of a function of o's target threw
Threw(o) == \E n \in Calls : calls[n].reg = o /\ calls[n].ret = "threw"

\* C18 as stated: once the method call that fired the target of a
\* registration is over, exactly the functions of the target have been
\* invoked, each once, depth first and left to right.
C18_AsStated ==
    \A o \in Ops :
        (ops[o].name \in Registrations /\ Reached(o) /\ Over(o))
            => TargetCalls(o) = Flat(ops[o].cb)

\* C18, amended: of a target that is a function or an array nested to any
\* depth, call() invokes only the functions it contains, each at most
\* once, depth first and left to right; it has invoked all of them when the
\* method that fired the target returns, and it stops early only when one
\* of the functions throws, the later ones then never being invoked.
\* Elements that are neither a function nor an array are passed over, and
\* a registration on a settled Deferred whose target holds no function
\* returns without invoking anything.
C18_DepthFirst ==
    \A o \in Ops :
        ops[o].name \in Registrations =>
            /\ IsPrefix(TargetCalls(o), Flat(ops[o].cb))
            /\ (Reached(o) /\ OverReturned(o)) => TargetCalls(o) = Flat(ops[o].cb)
            /\ (Reached(o) /\ Over(o) /\ TargetCalls(o) # Flat(ops[o].cb)) => Threw(o)
            /\ \A n, m \in Calls :
                 (calls[n].reg = o /\ calls[n].ret = "threw" /\ m > n) => calls[m].reg # o
            /\ (ops[o].pre # PENDING /\ Flat(ops[o].cb) = <<>>)
                   => ops[o].outcome = "returned"

\* the nested target [[x, f1], f2] was fired on a settled Deferred and its
\* call returned after f1 and f2, and a target that is no function was
\* given to a settled Deferred as well
C18_Witness ==
    /\ \E o \in Ops :
         /\ ops[o].name \in Registrations
         /\ Len(Flat(ops[o].cb)) = 2
         /\ TargetCalls(o) = Flat(ops[o].cb)
         /\ OverReturned(o)
    /\ \E o \in Ops :
         /\ ops[o].name \in Registrations
         /\ ops[o].pre # PENDING
         /\ ops[o].cb.t = "other"

\* ---------------------------------------------------------------------
\* a callback fired by the settling call s threw
ThrewIn(s) == \E n \in Calls : calls[n].op = s /\ calls[n].ret = "threw"

\* the last invocation the settling call s made
LastFired(s) ==
    CHOOSE n \in Calls : calls[n].op = s /\ \A m \in Calls : m > n => calls[m].op # s

\* C19: when a queued callback throws during the settling call, the call
\* ends by raising and the Deferred stays settled, RESOLVED after resolve or
\* resolveWith and REJECTED after rejectWith, with the args stored and the
\* queues gone; the functions queued behind the throwing one are never
\* invoked, neither by that call nor by anything called later.
C19_ThrowLeavesSettled ==
    \A s \in Resolvers \cup Rejecters :
        ThrewIn(s) =>
            /\ ops[s].outcome = "raised"
            /\ state = (IF s \in Resolvers THEN RESOLVED ELSE REJECTED)
            /\ ~args.null
            /\ args.length = Len(ValuesOf(s))
            /\ events.null
            /\ events.done \o events.fail \o events.always = <<>>
            /\ calls[LastFired(s)].ret = "threw"
            /\ \A j \in (Len(FiredBy(s)) + 1)..Len(QueueOrder(s)) :
                 InvokedOf(<<QueueOrder(s)[j]>>) = {}

\* the settling call raised at the first of two queued functions, and a
\* registration made afterwards fired and returned
C19_Witness ==
    \E s \in Resolvers \cup Rejecters :
        /\ ThrewIn(s)
        /\ Len(FiredBy(s)) < Len(QueueOrder(s))
        /\ \E o \in LateFiring : o > s /\ ops[o].outcome = "returned"
====
